---------------------------- MODULE Spec2Model ----------------------------
(***************************************************************************)
(* Cost Manager: the cost store (databaseService), the exchange rate       *)
(* service (exchangeRateService), the report assembly and the chart        *)
(* aggregations (costManagerService), the IndexedDB wrapper library in its *)
(* module and script versions, the IndexedDB service of the React          *)
(* application and the charts tab of ayezix/CostManagerApp.                *)
(*                                                                         *)
(* JavaScript numbers are modelled as exact rationals n/d together with    *)
(* the special values NaN, Infinity and undefined (a missing property read *)
(* where a number is expected).  IEEE-754 rounding is not modelled.        *)
(* Negative numbers occur only as rejected addCost inputs.                 *)
(***************************************************************************)
EXTENDS Integers, Sequences, FiniteSets, TLC

(***************************************************************************)
(* Bounds of the model.                                                    *)
(***************************************************************************)
\* addCost calls that pass validation and open a transaction
MaxCalls == 2
\* records in a store content enumerated for the report specification
MaxCosts == 2
\* fetchExchangeRates calls in the rate specification
MaxFetches == 2
\* chart generations of ChartsTab in flight at the same time
MaxGenerations == 3

(***************************************************************************)
(* JavaScript numbers.                                                     *)
(***************************************************************************)
RECURSIVE GCD(_, _)
GCD(a, b) == IF b = 0 THEN a ELSE GCD(b, a % b)

Abs(x) == IF x < 0 THEN -x ELSE x

\* the rational n/d in lowest terms, d > 0
Norm(n, d) ==
    LET g == GCD(Abs(n), Abs(d))
        s == IF d < 0 THEN -1 ELSE 1
    IN  [k |-> "fin", n |-> s * (n \div g), d |-> s * (d \div g)]

Fin(n, d) == Norm(n, d)
NaN == [k |-> "nan", n |-> 0, d |-> 1]
Infinity == [k |-> "inf", n |-> 1, d |-> 1]
Undefined == [k |-> "undef", n |-> 0, d |-> 1]
Zero == Fin(0, 1)

IsNaNish(a) == a.k \in {"nan", "undef"}

\* a / b
NumDiv(a, b) ==
    IF IsNaNish(a) \/ IsNaNish(b) THEN NaN
    ELSE IF a.k = "inf" THEN (IF b.k = "inf" THEN NaN ELSE Infinity)
    ELSE IF b.k = "inf" THEN Zero
    ELSE IF b.n = 0 THEN (IF a.n = 0 THEN NaN ELSE Infinity)
    ELSE Norm(a.n * b.d, a.d * b.n)

\* a * b
NumMul(a, b) ==
    IF IsNaNish(a) \/ IsNaNish(b) THEN NaN
    ELSE IF a.k = "inf" THEN (IF b.k = "fin" /\ b.n = 0 THEN NaN ELSE Infinity)
    ELSE IF b.k = "inf" THEN (IF a.n = 0 THEN NaN ELSE Infinity)
    ELSE Norm(a.n * b.n, a.d * b.d)

\* a + b
NumAdd(a, b) ==
    IF IsNaNish(a) \/ IsNaNish(b) THEN NaN
    ELSE IF a.k = "inf" \/ b.k = "inf" THEN Infinity
    ELSE Norm(a.n * b.d + b.n * a.d, a.d * b.d)

\* a <= 0
LeqZero(a) == a.k = "fin" /\ a.n <= 0

\* a is falsy: the right operand of a || b is taken
Falsy(a) == IsNaNish(a) \/ (a.k = "fin" /\ a.n = 0)

\* a || b
OrElse(a, b) == IF Falsy(a) THEN b ELSE a

(***************************************************************************)
(* JavaScript strings, as sequences of characters.                         *)
(***************************************************************************)
IsSpace(c) == c \in {" ", "\t"}

RECURSIVE TrimStart(_)
TrimStart(s) ==
    IF s = <<>> THEN <<>>
    ELSE IF IsSpace(Head(s)) THEN TrimStart(Tail(s)) ELSE s

RECURSIVE TrimEnd(_)
TrimEnd(s) ==
    IF s = <<>> THEN <<>>
    ELSE IF IsSpace(s[Len(s)]) THEN TrimEnd(SubSeq(s, 1, Len(s) - 1)) ELSE s

\* String.prototype.trim
Trim(s) == TrimEnd(TrimStart(s))

(***************************************************************************)
(* The values a caller may pass in a field of a cost object.  t is the     *)
(* result of typeof.                                                       *)
(***************************************************************************)
JsNum(x) == [t |-> "number", num |-> x, str |-> "", chars |-> <<>>]
JsStr(s) == [t |-> "string", num |-> Undefined, str |-> s, chars |-> <<>>]
JsText(cs) == [t |-> "string", num |-> Undefined, str |-> "", chars |-> cs]
JsUndefined == [t |-> "undefined", num |-> Undefined, str |-> "", chars |-> <<>>]

Food == <<"F", "o", "o", "d">>
Lunch == <<"L", "u", "n", "c", "h">>
Blank == <<" ", "\t", " ">>

CostObj(s, cu, ca, de) ==
    [obj |-> TRUE, sum |-> s, currency |-> cu, category |-> ca, description |-> de]

\* addCost() called without a cost object
NoCost ==
    [obj |-> FALSE, sum |-> JsUndefined, currency |-> JsUndefined,
     category |-> JsUndefined, description |-> JsUndefined]

\* the cost objects passed to addCost
CostInputs ==
    { CostObj(JsNum(Fin(1, 100)), JsStr("USD"), JsText(Food), JsText(Lunch)),
      CostObj(JsNum(NaN), JsStr("USD"), JsText(Food), JsText(Lunch)),
      CostObj(JsNum(Zero), JsStr("USD"), JsText(Food), JsText(Lunch)),
      CostObj(JsNum(Fin(-5, 1)), JsStr("USD"), JsText(Food), JsText(Lunch)),
      CostObj(JsStr("12"), JsStr("USD"), JsText(Food), JsText(Lunch)),
      CostObj(JsNum(Fin(100, 1)), JsStr("XYZ"), JsText(Food), JsText(Lunch)),
      CostObj(JsNum(Fin(100, 1)), JsStr("USD"), JsText(<<>>), JsText(Lunch)),
      CostObj(JsNum(Fin(100, 1)), JsStr("USD"), JsText(Blank), JsText(Lunch)),
      CostObj(JsNum(Fin(100, 1)), JsStr("USD"), JsText(Food), JsText(Blank)) }

\* the 4 currencies the app supports
CURRENCIES == {"USD", "ILS", "GBP", "EURO"}

\* const allowedCurrencies in addCost and getReport
allowedCurrencies == {"USD", "ILS", "GBP", "EURO"}

(***************************************************************************)
(* addCost's checks, in the order of the code: the error message of the    *)
(* first failing check, "" when the cost object passes all of them.        *)
(***************************************************************************)
ValidationError(cost) ==
    IF ~cost.obj THEN "Cost object is required"
    ELSE IF cost.sum.t # "number" THEN "Sum must be a number"
    ELSE IF cost.currency.t # "string" THEN "Currency must be a string"
    ELSE IF cost.category.t # "string" THEN "Category must be a string"
    ELSE IF cost.description.t # "string" THEN "Description must be a string"
    ELSE IF cost.currency.str \notin allowedCurrencies
        THEN "Currency must be one of: USD, ILS, GBP, EURO"
    ELSE IF LeqZero(cost.sum.num) THEN "Sum must be a positive number"
    ELSE IF Trim(cost.category.chars) = <<>> THEN "Category cannot be empty"
    ELSE IF Trim(cost.description.chars) = <<>> THEN "Description cannot be empty"
    ELSE ""

(***************************************************************************)
(* The wall clock: new Date() at tick t.  The ticks cross a month          *)
(* boundary.                                                               *)
(***************************************************************************)
Dates ==
    << [year |-> 2024, month |-> 3, day |-> 15],
       [year |-> 2024, month |-> 4, day |-> 1] >>

currentDate(t) == Dates[IF t + 1 <= Len(Dates) THEN t + 1 ELSE Len(Dates)]

VARIABLES
    database,       \* let database: "null" or "open"
    costsStore,     \* the committed content of object store 'costs', in key order
    keyGen,         \* the key generator of the object store: the last key issued
    calls,          \* the addCost calls that opened a transaction, in call order
    created,        \* the ids of the records ever committed, in commit order
    clock,          \* the wall clock
    handle,         \* what openCostsDB resolved with: "none" before it did
    lastResult,     \* what the last step settled a promise with, if it settled one
    rawReport,      \* the result of databaseService.getReport, until it is consumed
    report,         \* the result of the last convertReport
    exchangeRates,  \* let exchangeRates of the exchange rate service
    exchangeUrl,    \* let exchangeUrl
    windowApp,      \* window.app.exchangeRates
    fetches,        \* the fetchExchangeRates calls, in call order
    conv,           \* the last convertAmount call and its result
    chart,          \* the result of the last chart aggregation
    loading,        \* const [loading, setLoading] of ChartsTab
    pieData,        \* const [pieData, setPieData] of ChartsTab
    barData,        \* const [barData, setBarData] of ChartsTab
    generations     \* the chart generations of ChartsTab awaiting their reports

storeVars == <<database, costsStore, keyGen, calls, created, clock, handle>>
rateVars == <<exchangeRates, exchangeUrl, windowApp, fetches, conv>>
tabVars == <<loading, pieData, barData, generations>>
chartVars == <<chart, tabVars>>
vars == <<database, costsStore, keyGen, calls, created, clock, handle, lastResult,
          rawReport, report, exchangeRates, exchangeUrl, windowApp, fetches, conv, chart,
          loading, pieData, barData, generations>>

(***************************************************************************)
(* The cost store: databaseService.                                        *)
(***************************************************************************)
\* const costItem = {...} of addCost, stamped with new Date() at tick t.  id is
\* set by the store when the item is added; by is the number of the addCost
\* call the item comes from (not a field of the stored object)
costItem(cost, t, by) ==
    [id |-> 0,
     sum |-> cost.sum.num,
     currency |-> cost.currency.str,
     category |-> cost.category.chars,
     description |-> cost.description.chars,
     date |-> t,
     year |-> currentDate(t).year,
     month |-> currentDate(t).month,
     day |-> currentDate(t).day,
     by |-> by]

\* the object addCost resolves with
NoValue == [sum |-> Undefined, currency |-> "", category |-> <<>>, description |-> <<>>]

addedValue(addedItem) ==
    [sum |-> addedItem.sum, currency |-> addedItem.currency,
     category |-> addedItem.category, description |-> addedItem.description]

NoResult == [op |-> "none", ok |-> TRUE, error |-> "", cost |-> NoCost, costs |-> <<>>]

Rejected(op, error, cost) ==
    [op |-> op, ok |-> FALSE, error |-> error, cost |-> cost, costs |-> <<>>]

Resolved(op, costs) ==
    [op |-> op, ok |-> TRUE, error |-> "", cost |-> NoCost, costs |-> costs]

NoReport ==
    [ok |-> FALSE, error |-> "", year |-> 0, month |-> 0, costs |-> <<>>,
     requestedCurrency |-> ""]

\* a transaction runs when every transaction created before it has finished
TxRuns(i) ==
    /\ i \in 1..Len(calls)
    /\ calls[i].tx = "active"
    /\ \A j \in 1..(i - 1) : calls[j].tx # "active"

NoTxActive == \A i \in 1..Len(calls) : calls[i].tx # "active"

Init ==
    /\ database = "null"
    /\ costsStore = <<>>
    /\ keyGen = 0
    /\ calls = <<>>
    /\ created = <<>>
    /\ clock = 0
    /\ handle = "none"
    /\ lastResult = NoResult
    /\ rawReport = NoReport

\* indexedDB.open succeeds: request.onsuccess
openCostsDB ==
    /\ database = "null"
    /\ database' = "open"
    /\ handle' = "wrapper"
    /\ lastResult' = Resolved("openCostsDB", <<>>)
    /\ rawReport' = NoReport
    /\ UNCHANGED <<costsStore, keyGen, calls, created, clock>>

\* indexedDB.open fails: request.onerror
openCostsDBError ==
    /\ database = "null"
    /\ lastResult' = Rejected("openCostsDB", "Failed to open database", NoCost)
    /\ rawReport' = NoReport
    /\ UNCHANGED <<database, costsStore, keyGen, calls, created, clock, handle>>

Tick ==
    /\ clock + 1 < Len(Dates)
    /\ clock' = clock + 1
    /\ lastResult' = NoResult
    /\ rawReport' = NoReport
    /\ UNCHANGED <<database, costsStore, keyGen, calls, created, handle>>

\* the call record of an addCost call that passed the checks: transaction
\* created, costsStore.add(costItem) requested
NewCall(cost, t, by) ==
    [cost |-> cost, item |-> costItem(cost, t, by), key |-> 0, pc |-> "add",
     promise |-> "pending", value |-> NoValue, error |-> "", tx |-> "active",
     cleared |-> FALSE]

\* addCost(cost), up to the return of the promise
addCost(cost) ==
    LET err == ValidationError(cost) IN
    /\ rawReport' = NoReport
    /\ IF err # ""
       THEN /\ lastResult' = Rejected("addCost", err, cost)
            /\ UNCHANGED <<database, costsStore, keyGen, calls, created, clock, handle>>
       ELSE IF database = "null"
       THEN /\ lastResult' = Rejected("addCost", "Database not ready", cost)
            /\ UNCHANGED <<database, costsStore, keyGen, calls, created, clock, handle>>
       ELSE /\ Len(calls) < MaxCalls
            /\ calls' = Append(calls, NewCall(cost, clock, Len(calls) + 1))
            /\ lastResult' = NoResult
            /\ UNCHANGED <<database, costsStore, keyGen, created, clock, handle>>

\* the promise of call c settles once: resolve and reject after that do nothing
Reject(c, msg) ==
    IF c.promise = "pending" THEN [c EXCEPT !.promise = "rejected", !.error = msg] ELSE c

Resolve(c, v) ==
    IF c.promise = "pending" THEN [c EXCEPT !.promise = "resolved", !.value = v] ELSE c

\* a plausible slip: the id taken from the number of stored records
NextKeyByCount(k, store) == Len(store) + 1

\* the key the store gives an added item: keyPath 'id' with autoIncrement, and
\* costItem carries no id of its own, so the key generator decides
NextKey(k, store) == k + 1

\* addRequest.onsuccess: the store generated the key; costsStore.get(key) requested
addRequestOnsuccess(i) ==
    /\ TxRuns(i)
    /\ calls[i].pc = "add"
    /\ keyGen' = NextKey(keyGen, costsStore)
    /\ calls' = [calls EXCEPT ![i] =
            [@ EXCEPT !.key = keyGen', !.item = [@ EXCEPT !.id = keyGen'], !.pc = "get"]]
    /\ lastResult' = NoResult
    /\ rawReport' = NoReport
    /\ UNCHANGED <<database, costsStore, created, clock, handle>>

\* addRequest.onerror, then transaction.onerror as the event bubbles; the
\* transaction aborts
addRequestOnerror(i) ==
    /\ TxRuns(i)
    /\ calls[i].pc = "add"
    /\ calls' = [calls EXCEPT ![i] =
            [Reject(Reject(@, "Could not add cost"), "Database error")
                EXCEPT !.pc = "done", !.tx = "aborted"]]
    /\ lastResult' = NoResult
    /\ rawReport' = NoReport
    /\ UNCHANGED <<database, costsStore, keyGen, created, clock, handle>>

\* getRequest.onsuccess: resolve with the fields of the added item
getRequestOnsuccess(i) ==
    /\ TxRuns(i)
    /\ calls[i].pc = "get"
    /\ calls' = [calls EXCEPT ![i] =
            [Resolve(@, addedValue(@.item)) EXCEPT !.pc = "commit"]]
    /\ lastResult' = NoResult
    /\ rawReport' = NoReport
    /\ UNCHANGED <<database, costsStore, keyGen, created, clock, handle>>

\* getRequest.onerror, then transaction.onerror; the transaction aborts and
\* the key generator is set back
getRequestOnerror(i) ==
    /\ TxRuns(i)
    /\ calls[i].pc = "get"
    /\ calls' = [calls EXCEPT ![i] =
            [Reject(Reject(@, "Could not get added item"), "Database error")
                EXCEPT !.pc = "done", !.tx = "aborted"]]
    /\ keyGen' = calls[i].key - 1
    /\ lastResult' = NoResult
    /\ rawReport' = NoReport
    /\ UNCHANGED <<database, costsStore, created, clock, handle>>

\* the records of the store after the transaction of call c committed
Committed(store, c) == Append(store, c.item)

\* the transaction of addCost commits: the added record is in the store
txComplete(i) ==
    /\ TxRuns(i)
    /\ calls[i].pc = "commit"
    /\ costsStore' = Committed(costsStore, calls[i])
    /\ created' = Append(created, calls[i].key)
    /\ calls' = [calls EXCEPT ![i] = [@ EXCEPT !.pc = "done", !.tx = "committed"]]
    /\ lastResult' = NoResult
    /\ rawReport' = NoReport
    /\ UNCHANGED <<database, keyGen, clock, handle>>

\* the commit fails (quota, I/O): the transaction aborts after its requests
\* succeeded; addCost registers no onabort handler, and no request is left
\* to receive an error event
txAbort(i) ==
    /\ TxRuns(i)
    /\ calls[i].pc = "commit"
    /\ keyGen' = calls[i].key - 1
    /\ calls' = [calls EXCEPT ![i] = [@ EXCEPT !.pc = "done", !.tx = "aborted"]]
    /\ lastResult' = NoResult
    /\ rawReport' = NoReport
    /\ UNCHANGED <<database, costsStore, created, clock, handle>>

\* getAllCosts(): costsStore.getAll() in a readonly transaction
getAllCosts ==
    /\ rawReport' = NoReport
    /\ UNCHANGED <<database, costsStore, keyGen, calls, created, clock, handle>>
    /\ IF database = "null"
       THEN lastResult' = Rejected("getAllCosts", "Database not ready", NoCost)
       ELSE /\ NoTxActive
            /\ \/ lastResult' = Resolved("getAllCosts", costsStore)
               \/ lastResult' = Rejected("getAllCosts", "Could not get costs", NoCost)

\* the key generator after costsStore.clear(): clear() leaves it as it is
KeyGenAfterClear(k) == k

\* clearAllCosts(): costsStore.clear() in a readwrite transaction; the
\* promise is resolved in clearRequest.onsuccess, before the commit
clearAllCosts ==
    /\ rawReport' = NoReport
    /\ UNCHANGED <<database, created, clock, handle>>
    /\ IF database = "null"
       THEN /\ lastResult' = Rejected("clearAllCosts", "Database not ready", NoCost)
            /\ UNCHANGED <<costsStore, keyGen, calls>>
       ELSE /\ NoTxActive
            /\ \/ \* clearRequest.onsuccess, and the transaction commits
                  /\ costsStore' = <<>>
                  /\ keyGen' = KeyGenAfterClear(keyGen)
                  /\ calls' = [i \in 1..Len(calls) |->
                                 IF calls[i].tx = "committed"
                                 THEN [calls[i] EXCEPT !.cleared = TRUE] ELSE calls[i]]
                  /\ lastResult' = Resolved("clearAllCosts", <<>>)
               \/ \* clearRequest.onerror
                  /\ lastResult' = Rejected("clearAllCosts", "Could not clear costs", NoCost)
                  /\ UNCHANGED <<costsStore, keyGen, calls>>
               \/ \* clearRequest.onsuccess resolves, and the commit then fails:
                  \* the transaction aborts, no handler is registered for that
                  /\ lastResult' = Resolved("clearAllCosts", <<>>)
                  /\ UNCHANGED <<costsStore, keyGen, calls>>

(***************************************************************************)
(* The period query: databaseService.getReport.                            *)
(***************************************************************************)
ArgNum(v) == [t |-> "number", v |-> v]
ArgStr == [t |-> "string", v |-> 0]

\* getReport's checks, in the order of the code
ReportError(year, month, currency) ==
    IF year.t # "number" THEN "Year must be a number"
    ELSE IF month.t # "number" THEN "Month must be a number"
    ELSE IF currency.t # "string" THEN "Currency must be a string"
    ELSE IF month.v < 1 \/ month.v > 12 THEN "Month must be between 1 and 12"
    ELSE IF currency.str \notin allowedCurrencies
        THEN "Currency must be one of: USD, ILS, GBP, EURO"
    ELSE IF database = "null" THEN "Database not ready"
    ELSE ""

\* a plausible slip: the month is not compared
InPeriodYearOnly(cost, year, month) == cost.year = year

\* if (cost.year === year && cost.month === month)
InPeriod(cost, year, month) == cost.year = year /\ cost.month = month

\* the loop over allCosts that pushes the matching costs to filteredCosts
RECURSIVE filterLoop(_, _, _, _, _)
filterLoop(allCosts, i, year, month, filteredCosts) ==
    IF i > Len(allCosts) THEN filteredCosts
    ELSE filterLoop(allCosts, i + 1, year, month,
            IF InPeriod(allCosts[i], year, month)
            THEN Append(filteredCosts, allCosts[i]) ELSE filteredCosts)

filteredCostsOf(allCosts, year, month) == filterLoop(allCosts, 1, year, month, <<>>)

\* databaseService.getReport(year, month, currency)
getReportRaw(year, month, currency) ==
    LET err == ReportError(year, month, currency) IN
    /\ lastResult' = NoResult
    /\ IF err # ""
       THEN rawReport' = [NoReport EXCEPT !.error = err]
       ELSE /\ NoTxActive
            /\ \/ \* getAllRequest.onsuccess
                  rawReport' = [ok |-> TRUE, error |-> "", year |-> year.v, month |-> month.v,
                                costs |-> filteredCostsOf(costsStore, year.v, month.v),
                                requestedCurrency |-> currency.str]
               \/ \* getAllRequest.onerror
                  rawReport' = [NoReport EXCEPT !.error = "Could not get costs"]

(***************************************************************************)
(* The exchange rate service: exchangeRateService.                         *)
(***************************************************************************)
Table(usd, gbp, euro, ils) ==
    [c \in CURRENCIES |->
        CASE c = "USD" -> usd [] c = "GBP" -> gbp [] c = "EURO" -> euro [] c = "ILS" -> ils]

\* let exchangeRates = { USD: 1, GBP: 0.8, EURO: 0.85, ILS: 3.5 }
DefaultRates == Table(Fin(1, 1), Fin(4, 5), Fin(17, 20), Fin(7, 2))

NoTable == Table(Undefined, Undefined, Undefined, Undefined)

\* the values of exchangeUrl: defaultExchangeUrl, the empty string, a
\* configured URL
Urls == {"https://api.exchangerate-api.com/v4/latest/USD", "", "https://rates.example/custom"}

\* the fields of the rates object of a response that the code or its
\* documentation names
RemoteFields == {"USD", "GBP", "EUR", "ILS", "EURO"}

RemoteRates(usd, gbp, eur, ils, euro) ==
    [f \in RemoteFields |->
        CASE f = "USD" -> usd [] f = "GBP" -> gbp [] f = "EUR" -> eur
          [] f = "ILS" -> ils [] f = "EURO" -> euro]

\* a parsed response body: hasRates says whether it has a rates object; r are
\* the fields of that object, or of the body itself when it has none
Body(hasRates, r) == [hasRates |-> hasRates, rates |-> r]

NoBody == Body(FALSE, RemoteRates(Undefined, Undefined, Undefined, Undefined, Undefined))

\* the documented response: {"USD": 1, "GBP": 1.8, "EURO": 0.7, "ILS": 3.4}
FlatBody == Body(FALSE, RemoteRates(Fin(1, 1), Fin(9, 5), Undefined, Fin(17, 5), Fin(7, 10)))

\* the bodies a rate source answers with: all four rates; only EUR, and a zero
\* GBP; an object without rates; the documented flat object
Bodies ==
    { Body(TRUE, RemoteRates(Fin(1, 1), Fin(3, 4), Fin(9, 10), Fin(37, 10), Undefined)),
      Body(TRUE, RemoteRates(Undefined, Zero, Fin(9, 10), Undefined, Fin(7, 10))),
      NoBody,
      FlatBody }

\* how a request ends: fetch rejects; response.ok is false; response.json()
\* rejects; the body is parsed
Outcomes == {"networkError", "notOk", "badJson", "json"}

\* a plausible slip: a missing rate keeps the entry of the current table
ratesMergedWithCurrent(data, current) ==
    Table(OrElse(data.rates["USD"], current["USD"]),
          OrElse(data.rates["GBP"], current["GBP"]),
          OrElse(data.rates["EUR"], current["EURO"]),
          OrElse(data.rates["ILS"], current["ILS"]))

\* const rates = { USD: data.rates.USD || 1, GBP: data.rates.GBP || 0.8,
\*                 EURO: data.rates.EUR || 0.85, ILS: data.rates.ILS || 3.5 }
ratesOf(data, current) ==
    Table(OrElse(data.rates["USD"], Fin(1, 1)),
          OrElse(data.rates["GBP"], Fin(4, 5)),
          OrElse(data.rates["EUR"], Fin(17, 20)),
          OrElse(data.rates["ILS"], Fin(7, 2)))

\* the try block of fetchExchangeRates runs to the end: no rejection, a 2xx
\* status, a parsed body, and data.rates is an object
Applies(outcome, data) == outcome = "json" /\ data.hasRates

\* a plausible slip: the catch block falls back to the built-in table, as its
\* comment says
RatesAfterFetchDefaults(outcome, data, current) ==
    IF Applies(outcome, data) THEN ratesOf(data, current) ELSE DefaultRates

\* exchangeRates after the request of a fetchExchangeRates call ended
RatesAfterFetch(outcome, data, current) ==
    IF Applies(outcome, data) THEN ratesOf(data, current) ELSE current

\* what fetchExchangeRates returns: rates in the try block, exchangeRates in
\* the catch block
FetchReturns(outcome, data, current) == RatesAfterFetch(outcome, data, current)

\* whether an exception leaves fetchExchangeRates: the whole body is in the
\* try block, and the catch block only warns and returns
FetchThrows(outcome, data) == FALSE

WindowRates(set, rates) == [set |-> set, rates |-> rates]

\* window.app.exchangeRates after the request ended
WindowAfterFetch(outcome, data, current, w) ==
    IF Applies(outcome, data) THEN WindowRates(TRUE, ratesOf(data, current)) ELSE w

\* the requests a URL can be answered with: the empty URL resolves to the
\* page itself, which is no JSON document
OutcomesOf(url) == IF url = "" THEN Outcomes \ {"json"} ELSE Outcomes

NoFetch ==
    [id |-> 0, url |-> "", outcome |-> "none", data |-> NoBody, before |-> NoTable,
     after |-> NoTable, returned |-> NoTable, threw |-> FALSE]

NoConv == [set |-> FALSE, amount |-> Undefined, from |-> "", to |-> "", result |-> Undefined]

NoConverted ==
    [ok |-> FALSE, error |-> "", year |-> 0, month |-> 0, costs |-> <<>>,
     total |-> [currency |-> "", total |-> Undefined], requested |-> "", source |-> <<>>]

\* no chart aggregation has returned; failed are the months whose report
\* could not be built
NoChart ==
    [op |-> "none", ok |-> FALSE, error |-> "", labels |-> <<>>, data |-> <<>>,
     currency |-> "", year |-> 0, month |-> 0, source |-> <<>>,
     failed |-> {}]

\* useState({ pie: false, bar: false }), useState(null), useState(null) of
\* ChartsTab; no generation has started
InitTab ==
    /\ loading = [pie |-> FALSE, bar |-> FALSE]
    /\ pieData = "null"
    /\ barData = "null"
    /\ generations = <<>>

InitRates ==
    /\ exchangeRates = DefaultRates
    /\ exchangeUrl = "https://api.exchangerate-api.com/v4/latest/USD"
    /\ windowApp = WindowRates(FALSE, NoTable)
    /\ fetches = [started |-> 0, pending |-> <<>>, last |-> NoFetch]
    /\ conv = NoConv
    /\ report = NoConverted
    /\ chart = NoChart
    /\ InitTab

\* fetchExchangeRates(), up to await fetch(exchangeUrl)
fetchExchangeRates ==
    /\ fetches.started < MaxFetches
    /\ fetches' = [started |-> fetches.started + 1,
                   pending |-> Append(fetches.pending,
                                  [id |-> fetches.started + 1, url |-> exchangeUrl]),
                   last |-> NoFetch]
    /\ conv' = NoConv
    /\ UNCHANGED <<exchangeRates, exchangeUrl, windowApp>>

RemoveAt(seq, i) == SubSeq(seq, 1, i - 1) \o SubSeq(seq, i + 1, Len(seq))

\* the request of the i-th pending call ends and the call runs to its return
fetchSettles(i, outcome, data) ==
    /\ i \in 1..Len(fetches.pending)
    /\ outcome \in OutcomesOf(fetches.pending[i].url)
    /\ (outcome # "json") => data = NoBody
    /\ exchangeRates' = RatesAfterFetch(outcome, data, exchangeRates)
    /\ windowApp' = WindowAfterFetch(outcome, data, exchangeRates, windowApp)
    /\ fetches' = [started |-> fetches.started,
                   pending |-> RemoveAt(fetches.pending, i),
                   last |-> [id |-> fetches.pending[i].id,
                             url |-> fetches.pending[i].url,
                             outcome |-> outcome,
                             data |-> data,
                             before |-> exchangeRates,
                             after |-> exchangeRates',
                             returned |-> FetchReturns(outcome, data, exchangeRates),
                             threw |-> FetchThrows(outcome, data)]]
    /\ conv' = NoConv
    /\ UNCHANGED exchangeUrl

\* setExchangeUrl(url)
setExchangeUrl(url) ==
    /\ exchangeUrl' = url
    /\ fetches' = [fetches EXCEPT !.last = NoFetch]
    /\ conv' = NoConv
    /\ UNCHANGED <<exchangeRates, windowApp>>

\* saveSettings(url) of the app: the URL is set, '' for a cleared one, and
\* fetchExchangeRates is called, up to await fetch(exchangeUrl)
saveSettings(url) ==
    /\ fetches.started < MaxFetches
    /\ exchangeUrl' = url
    /\ fetches' = [started |-> fetches.started + 1,
                   pending |-> Append(fetches.pending,
                                  [id |-> fetches.started + 1, url |-> url]),
                   last |-> NoFetch]
    /\ conv' = NoConv
    /\ UNCHANGED <<exchangeRates, windowApp>>

\* the tables passed to setExchangeRates: the documented one, and one
\* without a GBP rate and relative to another currency than USD
RateInputs ==
    { Table(Fin(1, 1), Fin(9, 5), Fin(7, 10), Fin(17, 5)),
      Table(Fin(2, 1), Undefined, Fin(7, 10), Fin(17, 5)) }

\* setExchangeRates(rates)
setExchangeRates(rates) ==
    /\ exchangeRates' = rates
    /\ windowApp' = WindowRates(TRUE, rates)
    /\ fetches' = [fetches EXCEPT !.last = NoFetch]
    /\ conv' = NoConv
    /\ UNCHANGED exchangeUrl

\* a plausible slip: the two rates exchanged
convertAmountSwapped(amount, fromCurrency, toCurrency, rates) ==
    IF fromCurrency = toCurrency THEN amount
    ELSE NumMul(NumDiv(amount, rates[toCurrency]), rates[fromCurrency])

\* convertAmount(amount, fromCurrency, toCurrency), reading the table rates
convertAmount(amount, fromCurrency, toCurrency, rates) ==
    IF fromCurrency = toCurrency THEN amount
    ELSE LET usdAmount == NumDiv(amount, rates[fromCurrency])
             convertedAmount == NumMul(usdAmount, rates[toCurrency])
         IN  convertedAmount

\* the amounts convertAmount is called with
Amounts == {Fin(100, 1), Zero, NaN}

\* a call of convertAmount
callConvertAmount(amount, fromCurrency, toCurrency) ==
    /\ conv' = [set |-> TRUE, amount |-> amount, from |-> fromCurrency, to |-> toCurrency,
                result |-> convertAmount(amount, fromCurrency, toCurrency, exchangeRates)]
    /\ fetches' = [fetches EXCEPT !.last = NoFetch]
    /\ UNCHANGED <<exchangeRates, exchangeUrl, windowApp>>

(***************************************************************************)
(* The report assembly: costManagerService.getReport and convertReport.    *)
(***************************************************************************)
\* the callback of report.costs.map in convertReport
convertedCost(cost, targetCurrency, rates) ==
    [sum |-> convertAmount(OrElse(cost.sum, Zero), cost.currency, targetCurrency, rates),
     currency |-> targetCurrency,
     category |-> cost.category,
     description |-> cost.description,
     Date |-> [day |-> cost.day]]

convertedCostsOf(costs, targetCurrency, rates) ==
    [k \in 1..Len(costs) |-> convertedCost(costs[k], targetCurrency, rates)]

RECURSIVE reduceSum(_, _, _)
reduceSum(convertedCosts, k, sum) ==
    IF k > Len(convertedCosts) THEN sum
    ELSE reduceSum(convertedCosts, k + 1, NumAdd(sum, convertedCosts[k].sum))

\* a plausible slip: the reduce starts at the second line item
convertedTotalSkippingFirst(convertedCosts) == reduceSum(convertedCosts, 2, Zero)

\* convertedCosts.reduce((sum, cost) => sum + cost.sum, 0)
convertedTotalOf(convertedCosts) == reduceSum(convertedCosts, 1, Zero)

\* the report convertReport returns, reading the table rates
convertedReportOf(raw, targetCurrency, rates) ==
    LET convertedCosts == convertedCostsOf(raw.costs, targetCurrency, rates)
    IN  [ok |-> TRUE, error |-> "", year |-> raw.year, month |-> raw.month,
         costs |-> convertedCosts,
         total |-> [currency |-> targetCurrency, total |-> convertedTotalOf(convertedCosts)],
         requested |-> raw.requestedCurrency, source |-> raw.costs]

\* costManagerService.getReport after databaseService.getReport resolved:
\* convertReport awaits fetchExchangeRates, whose request ends with outcome
\* and data, and then converts with the table of that moment
getReportConverts(outcome, data) ==
    /\ rawReport.ok
    /\ outcome \in OutcomesOf(exchangeUrl)
    /\ (outcome # "json") => data = NoBody
    /\ exchangeRates' = RatesAfterFetch(outcome, data, exchangeRates)
    /\ windowApp' = WindowAfterFetch(outcome, data, exchangeRates, windowApp)
    /\ report' = convertedReportOf(rawReport, rawReport.requestedCurrency, exchangeRates')
    /\ rawReport' = NoReport
    /\ UNCHANGED <<exchangeUrl, fetches, conv>>

\* costManagerService.getReport after databaseService.getReport rejected: the
\* catch block throws 'Failed to get report: ' + error.message
getReportThrows ==
    /\ ~rawReport.ok
    /\ rawReport.error # ""
    /\ report' = [NoConverted EXCEPT !.error = "Failed to get report"]
    /\ rawReport' = NoReport
    /\ UNCHANGED rateVars

(***************************************************************************)
(* The IndexedDB wrapper library (module version): its own let database,   *)
(* openCostsDB, setDatabase, addCost, getReport, getAllCosts,              *)
(* clearAllCosts and convertCurrency.  The handlers of its add and get     *)
(* requests have the shape of databaseService's and are modelled by the    *)
(* same actions.                                                           *)
(***************************************************************************)
\* the cost objects passed to the library's addCost
LibInputs ==
    { CostObj(JsNum(Fin(1, 100)), JsStr("USD"), JsText(Food), JsText(Lunch)),
      CostObj(JsNum(Fin(100, 1)), JsStr("ILS"), JsText(Lunch), JsText(Food)),
      CostObj(JsStr("12"), JsStr("USD"), JsText(Food), JsText(Lunch)) }

\* the library's check of the cost object: the types only
libValidationError(cost) ==
    IF \/ ~cost.obj
       \/ cost.sum.t # "number"
       \/ cost.currency.t # "string"
       \/ cost.category.t # "string"
       \/ cost.description.t # "string"
    THEN "Invalid cost object"
    ELSE ""

\* const costItem = {...} of the library's addCost: date, year, month and day
\* each come from a new Date() of their own, read at the ticks t0 <= t1 <= t2 <= t3
libCostItem(cost, t0, t1, t2, t3, by) ==
    [id |-> 0,
     sum |-> cost.sum.num,
     currency |-> cost.currency.str,
     category |-> cost.category.chars,
     description |-> cost.description.chars,
     date |-> t0,
     year |-> currentDate(t1).year,
     month |-> currentDate(t2).month,
     day |-> currentDate(t3).day,
     by |-> by]

\* openCostsDB of the library, request.onsuccess: resolve(db); let database is
\* not assigned
libOpenCostsDB ==
    /\ handle = "none"
    /\ handle' = "raw"
    /\ lastResult' = Resolved("openCostsDB", <<>>)
    /\ rawReport' = NoReport
    /\ report' = NoConverted
    /\ UNCHANGED <<database, costsStore, keyGen, calls, created, clock>>

\* setDatabase(db), called with the database openCostsDB resolved with
libSetDatabase ==
    /\ handle = "raw"
    /\ database = "null"
    /\ database' = "open"
    /\ lastResult' = NoResult
    /\ rawReport' = NoReport
    /\ report' = NoConverted
    /\ UNCHANGED <<costsStore, keyGen, calls, created, clock, handle>>

\* the wall clock advances between two calls of the library
libTick ==
    /\ Tick
    /\ report' = NoConverted

\* addCost(cost) of the library, up to the return of the promise; the clock
\* reads t1, t2, t3 after the first new Date()
libAddCost(cost, t1, t2, t3) ==
    LET err == libValidationError(cost) IN
    /\ rawReport' = NoReport
    /\ report' = NoConverted
    /\ IF err # ""
       THEN /\ t1 = clock /\ t2 = clock /\ t3 = clock
            /\ lastResult' = Rejected("addCost", err, cost)
            /\ UNCHANGED <<database, costsStore, keyGen, calls, created, clock, handle>>
       ELSE IF database = "null"
       THEN /\ t1 = clock /\ t2 = clock /\ t3 = clock
            /\ lastResult' = Rejected("addCost", "Database not initialized", cost)
            /\ UNCHANGED <<database, costsStore, keyGen, calls, created, clock, handle>>
       ELSE /\ Len(calls) < MaxCalls
            /\ clock <= t1 /\ t1 <= t2 /\ t2 <= t3 /\ t3 < Len(Dates)
            /\ calls' = Append(calls,
                    [NewCall(cost, clock, Len(calls) + 1) EXCEPT
                        !.item = libCostItem(cost, clock, t1, t2, t3, Len(calls) + 1)])
            /\ clock' = t3
            /\ lastResult' = NoResult
            /\ UNCHANGED <<database, costsStore, keyGen, created, handle>>

\* a step of the transaction of a library addCost call: request.onsuccess,
\* getRequest.onsuccess, the commit
libTxStep(i) ==
    /\ \/ addRequestOnsuccess(i)
       \/ getRequestOnsuccess(i)
       \/ txComplete(i)
    /\ report' = NoConverted

\* getAllCosts() of the library
libGetAllCosts ==
    /\ rawReport' = NoReport
    /\ report' = NoConverted
    /\ UNCHANGED <<database, costsStore, keyGen, calls, created, clock, handle>>
    /\ IF database = "null"
       THEN lastResult' = Rejected("getAllCosts", "Database not initialized", NoCost)
       ELSE /\ NoTxActive
            /\ \/ lastResult' = Resolved("getAllCosts", costsStore)
               \/ lastResult' = Rejected("getAllCosts", "Failed to retrieve costs", NoCost)

\* clearAllCosts() of the library
libClearAllCosts ==
    /\ rawReport' = NoReport
    /\ report' = NoConverted
    /\ UNCHANGED <<database, created, clock, handle>>
    /\ IF database = "null"
       THEN /\ lastResult' = Rejected("clearAllCosts", "Database not initialized", NoCost)
            /\ UNCHANGED <<costsStore, keyGen, calls>>
       ELSE /\ NoTxActive
            /\ \/ /\ costsStore' = <<>>
                  /\ keyGen' = KeyGenAfterClear(keyGen)
                  /\ calls' = [i \in 1..Len(calls) |->
                                 IF calls[i].tx = "committed"
                                 THEN [calls[i] EXCEPT !.cleared = TRUE] ELSE calls[i]]
                  /\ lastResult' = Resolved("clearAllCosts", <<>>)
               \/ /\ lastResult' = Rejected("clearAllCosts", "Failed to clear costs", NoCost)
                  /\ UNCHANGED <<costsStore, keyGen, calls>>
               \/ \* request.onsuccess resolves, and the commit then fails
                  /\ lastResult' = Resolved("clearAllCosts", <<>>)
                  /\ UNCHANGED <<costsStore, keyGen, calls>>

\* rates[currency]: undefined for a currency the table has no entry for
RateOf(rates, currency) ==
    IF currency \in DOMAIN rates THEN rates[currency] ELSE Undefined

\* const defaultRates = { USD: 1, GBP: 1.8, EURO: 0.7, ILS: 3.4 }
defaultRates == Table(Fin(1, 1), Fin(9, 5), Fin(7, 10), Fin(17, 5))

\* convertCurrency(amount, fromCurrency, toCurrency) of the library, reading
\* window.app.exchangeRates w
convertCurrency(amount, fromCurrency, toCurrency, w) ==
    LET rates == IF w.set THEN w.rates ELSE defaultRates IN
    IF fromCurrency = toCurrency THEN amount
    ELSE IF Falsy(RateOf(rates, fromCurrency)) \/ Falsy(RateOf(rates, toCurrency)) THEN amount
    ELSE NumMul(NumDiv(amount, RateOf(rates, fromCurrency)), RateOf(rates, toCurrency))

\* the checks of the library's getReport, in the order of the code
libReportError(year, month, currency) ==
    IF year.t # "number" \/ month.t # "number" \/ currency.t # "string"
    THEN "Invalid parameters"
    ELSE IF month.v < 1 \/ month.v > 12 THEN "Month must be between 1 and 12"
    ELSE IF database = "null" THEN "Database not initialized"
    ELSE ""

\* the report the library's getReport resolves with
libReportOf(allCosts, year, month, currency, w) ==
    LET filteredCosts == SelectSeq(allCosts, LAMBDA cost : InPeriod(cost, year, month))
        convertedCosts ==
            [k \in 1..Len(filteredCosts) |->
                [sum |-> convertCurrency(filteredCosts[k].sum, filteredCosts[k].currency,
                                         currency, w),
                 currency |-> currency,
                 category |-> filteredCosts[k].category,
                 description |-> filteredCosts[k].description,
                 Date |-> [day |-> filteredCosts[k].day]]]
    IN  [ok |-> TRUE, error |-> "", year |-> year, month |-> month,
         costs |-> convertedCosts,
         total |-> [currency |-> currency, total |-> reduceSum(convertedCosts, 1, Zero)],
         requested |-> currency, source |-> filteredCosts]

\* getReport(year, month, currency) of the library
libGetReport(year, month, currency) ==
    LET err == libReportError(year, month, currency) IN
    /\ lastResult' = NoResult
    /\ rawReport' = NoReport
    /\ UNCHANGED <<database, costsStore, keyGen, calls, created, clock, handle>>
    /\ IF err # ""
       THEN report' = [NoConverted EXCEPT !.error = err, !.requested = currency.str]
       ELSE /\ NoTxActive
            /\ \/ report' = libReportOf(costsStore, year.v, month.v, currency.str, windowApp)
               \/ report' = [NoConverted EXCEPT !.error = "Failed to retrieve costs",
                                                !.requested = currency.str]

\* window.db.openCostsDB of the script version of the library succeeds:
\* request.onsuccess stores the database in window.db.database and resolves
\* with dbWrapper
windowOpenCostsDB ==
    /\ handle = "none"
    /\ database' = "open"
    /\ handle' = "wrapper"
    /\ lastResult' = Resolved("openCostsDB", <<>>)
    /\ rawReport' = NoReport
    /\ report' = NoConverted
    /\ UNCHANGED <<costsStore, keyGen, calls, created, clock>>

\* the result of a call of dbWrapper.getReport with its arguments in the
\* order of the call
WrapperCall(first, second, third) ==
    [op |-> "dbWrapper.getReport", ok |-> TRUE, error |-> "", cost |-> NoCost,
     costs |-> <<>>, args |-> <<first, second, third>>]

\* dbWrapper.getReport: function(month, year, currency) { return
\* window.db.getReport(year, month, currency); } called with the arguments
\* (first, second, third)
dbWrapperGetReport(first, second, third) ==
    LET month == first
        year == second
        currency == third
        err == libReportError(year, month, currency)
    IN
    /\ handle = "wrapper"
    /\ lastResult' = WrapperCall(first, second, third)
    /\ rawReport' = NoReport
    /\ UNCHANGED <<database, costsStore, keyGen, calls, created, clock, handle>>
    /\ IF err # ""
       THEN report' = [NoConverted EXCEPT !.error = err, !.requested = currency.str]
       ELSE /\ NoTxActive
            /\ \/ report' = libReportOf(costsStore, year.v, month.v, currency.str, windowApp)
               \/ report' = [NoConverted EXCEPT !.error = "Failed to retrieve costs",
                                                !.requested = currency.str]

(***************************************************************************)
(* The IndexedDB service of the React application (services/idb.js): its   *)
(* addCost registers request.onsuccess, getRequest.onsuccess and           *)
(* request.onerror only.                                                   *)
(***************************************************************************)
\* !v for a field v of the cost object
FalsyField(v) ==
    \/ v.t = "undefined"
    \/ v.t = "string" /\ v.str = "" /\ v.chars = <<>>
    \/ v.t = "number" /\ Falsy(v.num)

\* the cost objects passed to the service's addCost
IdbInputs ==
    { CostObj(JsNum(Fin(1, 100)), JsStr("USD"), JsText(Food), JsText(Lunch)),
      CostObj(JsNum(Fin(100, 1)), JsStr("XYZ"), JsText(Blank), JsText(Food)),
      CostObj(JsNum(Zero), JsStr("USD"), JsText(Food), JsText(Lunch)),
      CostObj(JsNum(Fin(100, 1)), JsStr("USD"), JsText(<<>>), JsText(Lunch)) }

\* the one check of the service's addCost
idbValidationError(cost) ==
    IF \/ ~cost.obj
       \/ cost.sum.t # "number"
       \/ LeqZero(cost.sum.num)
       \/ FalsyField(cost.currency)
       \/ FalsyField(cost.category)
       \/ FalsyField(cost.description)
    THEN "Invalid cost data"
    ELSE ""

\* openCostsDB of the service resolves with the IDBDatabase; the service's
\* own database stays null until setDatabase
idbOpenCostsDB == libOpenCostsDB

\* setDatabase(db) of the service
idbSetDatabase == libSetDatabase

\* addCost(cost) of the service, up to the return of the promise
idbAddCost(cost) ==
    LET err == idbValidationError(cost) IN
    /\ rawReport' = NoReport
    /\ report' = NoConverted
    /\ IF err # ""
       THEN /\ lastResult' = Rejected("addCost", err, cost)
            /\ UNCHANGED <<database, costsStore, keyGen, calls, created, clock, handle>>
       ELSE IF database = "null"
       THEN /\ lastResult' = Rejected("addCost", "Database not connected", cost)
            /\ UNCHANGED <<database, costsStore, keyGen, calls, created, clock, handle>>
       ELSE /\ Len(calls) < MaxCalls
            /\ calls' = Append(calls, NewCall(cost, clock, Len(calls) + 1))
            /\ lastResult' = NoResult
            /\ UNCHANGED <<database, costsStore, keyGen, created, clock, handle>>

\* request.onsuccess: store.get(event.target.result) is requested
idbRequestOnsuccess(i) == addRequestOnsuccess(i) /\ UNCHANGED report

\* request.onerror: the promise is rejected; the error is not prevented and
\* the transaction aborts
idbRequestOnerror(i) ==
    /\ TxRuns(i)
    /\ calls[i].pc = "add"
    /\ calls' = [calls EXCEPT ![i] =
            [Reject(@, "Failed to add cost") EXCEPT !.pc = "done", !.tx = "aborted"]]
    /\ lastResult' = NoResult
    /\ rawReport' = NoReport
    /\ UNCHANGED <<database, costsStore, keyGen, created, clock, handle, report>>

\* getRequest.onsuccess: resolve with the fields of the added item
idbGetRequestOnsuccess(i) == getRequestOnsuccess(i) /\ UNCHANGED report

\* the read of the added record fails: getRequest has no onerror and the
\* transaction has none, so no handler runs; the error is not prevented and
\* the transaction aborts
idbGetRequestFails(i) ==
    /\ TxRuns(i)
    /\ calls[i].pc = "get"
    /\ calls' = [calls EXCEPT ![i] = [@ EXCEPT !.pc = "done", !.tx = "aborted"]]
    /\ keyGen' = calls[i].key - 1
    /\ lastResult' = NoResult
    /\ rawReport' = NoReport
    /\ UNCHANGED <<database, costsStore, created, clock, handle, report>>

\* the transaction of the service's addCost commits, or fails to commit
idbTxComplete(i) == txComplete(i) /\ UNCHANGED report

idbTxAbort(i) == txAbort(i) /\ UNCHANGED report

\* an event of the transaction of call i is delivered
idbTxStep(i) ==
    \/ idbRequestOnsuccess(i)
    \/ idbRequestOnerror(i)
    \/ idbGetRequestOnsuccess(i)
    \/ idbGetRequestFails(i)
    \/ idbTxComplete(i)
    \/ idbTxAbort(i)

(***************************************************************************)
(* The chart aggregations: costManagerService.getCostsByCategory and       *)
(* getCostsByMonth.                                                        *)
(***************************************************************************)
Digits == {"0", "1", "2", "3", "4", "5", "6", "7", "8", "9"}

DigitValue(c) ==
    CASE c = "0" -> 0 [] c = "1" -> 1 [] c = "2" -> 2 [] c = "3" -> 3 [] c = "4" -> 4
      [] c = "5" -> 5 [] c = "6" -> 6 [] c = "7" -> 7 [] c = "8" -> 8 [] c = "9" -> 9

\* a property name that is an array index: "0", or digits with no leading zero
IsIndexKey(cs) ==
    /\ cs # <<>>
    /\ \A j \in 1..Len(cs) : cs[j] \in Digits
    /\ Len(cs) > 1 => cs[1] # "0"

RECURSIVE IndexValue(_)
IndexValue(cs) ==
    IF cs = <<>> THEN 0
    ELSE 10 * IndexValue(SubSeq(cs, 1, Len(cs) - 1)) + DigitValue(cs[Len(cs)])

\* const categoryTotals = {}: the property names in creation order, and the
\* value of each
NoTotals == [keys |-> <<>>, of |-> [c \in {} |-> Zero]]

\* report.costs.forEach(cost => ...): a total that is missing or falsy is
\* assigned, any other is added to
RECURSIVE categoryTotalsOf(_, _, _)
categoryTotalsOf(costs, k, categoryTotals) ==
    IF k > Len(costs) THEN categoryTotals
    ELSE LET category == costs[k].category
             has == category \in DOMAIN categoryTotals.of
         IN  categoryTotalsOf(costs, k + 1,
                IF has /\ ~Falsy(categoryTotals.of[category])
                THEN [categoryTotals EXCEPT !.of[category] = NumAdd(@, costs[k].sum)]
                ELSE [keys |-> IF has THEN categoryTotals.keys
                               ELSE Append(categoryTotals.keys, category),
                      of |-> (category :> costs[k].sum) @@ categoryTotals.of])

\* Object.keys(categoryTotals): the array indices in ascending numeric order,
\* then the other names in creation order
ObjectKeys(categoryTotals) ==
    SortSeq(SelectSeq(categoryTotals.keys, IsIndexKey),
            LAMBDA a, b : IndexValue(a) < IndexValue(b))
       \o SelectSeq(categoryTotals.keys, LAMBDA c : ~IsIndexKey(c))

\* Object.values(categoryTotals): the values in the order of Object.keys
ObjectValues(categoryTotals) ==
    [k \in 1..Len(ObjectKeys(categoryTotals)) |->
        categoryTotals.of[ObjectKeys(categoryTotals)[k]]]

\* the error that ends getReport of costManagerService before the rates are
\* fetched, "" when there is none; dbOk says whether getAllRequest succeeds
GetReportError(year, month, currency, dbOk) ==
    IF ReportError(year, month, currency) # "" THEN ReportError(year, month, currency)
    ELSE IF ~dbOk THEN "Could not get costs"
    ELSE ""

\* getCostsByCategory(year, month, currency); the request of
\* fetchExchangeRates in convertReport ends with outcome and data
getCostsByCategory(year, month, currency, dbOk, outcome, data) ==
    LET err == IF currency.str \notin CURRENCIES
               THEN "Currency must be one of: USD, ILS, GBP, EURO"
               ELSE GetReportError(year, month, currency, dbOk)
        raw == [ok |-> TRUE, error |-> "", year |-> year.v, month |-> month.v,
                costs |-> filteredCostsOf(costsStore, year.v, month.v),
                requestedCurrency |-> currency.str]
    IN
    /\ NoTxActive
    /\ outcome \in OutcomesOf(exchangeUrl)
    /\ (outcome # "json") => data = NoBody
    /\ lastResult' = NoResult
    /\ rawReport' = NoReport
    /\ UNCHANGED <<storeVars, exchangeUrl, fetches, conv>>
    /\ IF err # ""
       THEN /\ chart' = [NoChart EXCEPT !.op = "byCategory",
                             !.error = "Failed to get costs by category: " \o err,
                             !.currency = currency.str]
            /\ report' = NoConverted
            /\ UNCHANGED <<exchangeRates, windowApp>>
       ELSE /\ exchangeRates' = RatesAfterFetch(outcome, data, exchangeRates)
            /\ windowApp' = WindowAfterFetch(outcome, data, exchangeRates, windowApp)
            /\ report' = convertedReportOf(raw, currency.str, exchangeRates')
            /\ chart' = [op |-> "byCategory", ok |-> TRUE, error |-> "",
                         labels |-> ObjectKeys(categoryTotalsOf(report'.costs, 1, NoTotals)),
                         data |-> ObjectValues(categoryTotalsOf(report'.costs, 1, NoTotals)),
                         currency |-> currency.str, year |-> year.v, month |-> month.v,
                         source |-> report'.costs, failed |-> {}]

\* MONTHS.map(m => m.label)
MonthLabels ==
    << "January", "February", "March", "April", "May", "June", "July", "August",
       "September", "October", "November", "December" >>

\* a plausible slip: a month whose report failed is left out
monthlyDataSkippingFailed(store, year, currency, failing, rates) ==
    LET all == [month \in 1..12 |->
                  [month |-> month,
                   total |-> convertedTotalOf(convertedCostsOf(
                                 filteredCostsOf(store, year.v, month), currency.str, rates)),
                   currency |-> currency.str]]
    IN  SelectSeq(all, LAMBDA d :
            GetReportError(year, ArgNum(d.month), currency, d.month \notin failing) = "")

\* the loop of getCostsByMonth: one entry per month 1..12, the total of the
\* month's report, or 0 when getReport threw; failing are the months whose
\* getAllRequest fails, rates the table after fetchExchangeRates
monthlyDataOf(store, year, currency, failing, rates) ==
    [month \in 1..12 |->
        IF GetReportError(year, ArgNum(month), currency, month \notin failing) # ""
        THEN [month |-> month, total |-> Zero, currency |-> currency.str]
        ELSE [month |-> month,
              total |-> convertedTotalOf(convertedCostsOf(
                            filteredCostsOf(store, year.v, month), currency.str, rates)),
              currency |-> currency.str]]

\* getCostsByMonth(year, currency); every request of fetchExchangeRates made
\* by the twelve reports ends with outcome and data
getCostsByMonth(year, currency, failing, outcome, data) ==
    LET fetched == \E month \in 1..12 :
                      GetReportError(year, ArgNum(month), currency, month \notin failing) = ""
        rates == IF fetched THEN RatesAfterFetch(outcome, data, exchangeRates)
                 ELSE exchangeRates
        monthlyData == monthlyDataOf(costsStore, year, currency, failing, rates)
    IN
    /\ NoTxActive
    /\ outcome \in OutcomesOf(exchangeUrl)
    /\ (outcome # "json") => data = NoBody
    /\ lastResult' = NoResult
    /\ rawReport' = NoReport
    /\ report' = NoConverted
    /\ UNCHANGED <<storeVars, exchangeUrl, fetches, conv>>
    /\ IF currency.str \notin CURRENCIES
       THEN /\ chart' = [NoChart EXCEPT !.op = "byMonth",
                             !.error = "Failed to get costs by month: Currency must be one of: USD, ILS, GBP, EURO",
                             !.currency = currency.str]
            /\ UNCHANGED <<exchangeRates, windowApp>>
       ELSE /\ exchangeRates' = rates
            /\ windowApp' = IF fetched
                            THEN WindowAfterFetch(outcome, data, exchangeRates, windowApp)
                            ELSE windowApp
            /\ chart' = [op |-> "byMonth", ok |-> TRUE, error |-> "",
                         labels |-> MonthLabels,
                         data |-> [k \in 1..Len(monthlyData) |-> monthlyData[k].total],
                         currency |-> currency.str, year |-> year.v, month |-> 0,
                         source |-> monthlyData,
                         failed |-> { month \in 1..12 : GetReportError(year,
                                        ArgNum(month), currency, month \notin failing) # "" }]

\* yearCosts.forEach of getMonthlyData of the vanilla app: the stored sum of
\* each record is added to the entry of its month, without any conversion
RECURSIVE monthlyTotalsOf(_, _, _)
monthlyTotalsOf(yearCosts, k, monthlyTotals) ==
    IF k > Len(yearCosts) THEN monthlyTotals
    ELSE monthlyTotalsOf(yearCosts, k + 1,
             [monthlyTotals EXCEPT ![yearCosts[k].month] = NumAdd(@, yearCosts[k].sum)])

\* getMonthlyData(year, currency) of the vanilla app; dbOk tells whether
\* db.getAllCosts resolves, a rejection is caught and leaves the twelve zeros
getMonthlyData(year, currency, dbOk) ==
    LET yearCosts == SelectSeq(costsStore, LAMBDA cost : cost.year = year.v)
        zeros == [month \in 1..12 |-> Zero]
    IN
    /\ NoTxActive
    /\ lastResult' = NoResult
    /\ rawReport' = NoReport
    /\ report' = NoConverted
    /\ UNCHANGED <<storeVars, rateVars>>
    /\ chart' = [op |-> "monthlyData", ok |-> TRUE, error |-> "", labels |-> <<>>,
                 data |-> IF dbOk THEN monthlyTotalsOf(yearCosts, 1, zeros) ELSE zeros,
                 currency |-> currency.str, year |-> year.v, month |-> 0,
                 source |-> IF dbOk THEN yearCosts ELSE <<>>,
                 failed |-> IF dbOk THEN {} ELSE 1..12]

(***************************************************************************)
(* The charts tab of the React application (ChartsTab): the loading flags  *)
(* of its two generators.  A generator is a closure of the render in which *)
(* its button was clicked: the loading it spreads is that render's.        *)
(***************************************************************************)
\* a generation awaiting its reports: the chart, and the loading of the
\* render whose handler is running
Generation(kind, rendered) == [kind |-> kind, loading |-> rendered]

\* generatePieChart / generateBarChart up to the first await: the button of
\* the chart is enabled, and setLoading({ ...loading, [kind]: true })
generateChart(kind) ==
    /\ ~loading[kind]
    /\ rawReport' = NoReport
    /\ UNCHANGED <<storeVars, pieData, barData>>
    /\ IF handle = "none"
       THEN /\ lastResult' = Rejected(kind, "Database not initialized", NoCost)
            /\ UNCHANGED <<loading, generations>>
       ELSE /\ Len(generations) < MaxGenerations
            /\ loading' = [loading EXCEPT ![kind] = TRUE]
            /\ generations' = Append(generations, Generation(kind, loading))
            /\ lastResult' = NoResult

generatePieChart == generateChart("pie")

generateBarChart == generateChart("bar")

\* how the report of a pie chart generation ends
PieOutcomes == {"data", "empty", "error"}

\* generatePieChart from its await on: the report has costs, has none, or
\* getReport rejected; finally setLoading({ ...loading, pie: false })
pieChartSettles(i, outcome) ==
    /\ i \in 1..Len(generations)
    /\ generations[i].kind = "pie"
    /\ pieData' = CASE outcome = "data" -> "data"
                    [] outcome = "empty" -> "null"
                    [] OTHER -> pieData
    /\ lastResult' = IF outcome = "error"
                     THEN Rejected("pie", "Failed to generate pie chart", NoCost)
                     ELSE Resolved("pie", <<>>)
    /\ loading' = [generations[i].loading EXCEPT !.pie = FALSE]
    /\ generations' = RemoveAt(generations, i)
    /\ rawReport' = NoReport
    /\ UNCHANGED <<storeVars, barData>>

\* generateBarChart from its first await on: the twelve reports, setBarData;
\* finally setLoading({ ...loading, bar: false })
barChartSettles(i) ==
    /\ i \in 1..Len(generations)
    /\ generations[i].kind = "bar"
    /\ barData' = "data"
    /\ lastResult' = Resolved("bar", <<>>)
    /\ loading' = [generations[i].loading EXCEPT !.bar = FALSE]
    /\ generations' = RemoveAt(generations, i)
    /\ rawReport' = NoReport
    /\ UNCHANGED <<storeVars, pieData>>

(***************************************************************************)
(* Specifications.                                                         *)
(***************************************************************************)
\* the arguments of the period queries of the store specification
StoreYears == {ArgNum(2024), ArgNum(2025)}
StoreMonths == {ArgNum(3), ArgNum(4)}

StoreNext ==
    \/ openCostsDB /\ UNCHANGED <<report, rateVars, chartVars>>
    \/ openCostsDBError /\ UNCHANGED <<report, rateVars, chartVars>>
    \/ Tick /\ UNCHANGED <<report, rateVars, chartVars>>
    \/ \E cost \in CostInputs : addCost(cost) /\ UNCHANGED <<report, rateVars, chartVars>>
    \/ \E i \in 1..Len(calls) : addRequestOnsuccess(i) /\ UNCHANGED <<report, rateVars, chartVars>>
    \/ \E i \in 1..Len(calls) : addRequestOnerror(i) /\ UNCHANGED <<report, rateVars, chartVars>>
    \/ \E i \in 1..Len(calls) : getRequestOnsuccess(i) /\ UNCHANGED <<report, rateVars, chartVars>>
    \/ \E i \in 1..Len(calls) : getRequestOnerror(i) /\ UNCHANGED <<report, rateVars, chartVars>>
    \/ \E i \in 1..Len(calls) : txComplete(i) /\ UNCHANGED <<report, rateVars, chartVars>>
    \/ \E i \in 1..Len(calls) : txAbort(i) /\ UNCHANGED <<report, rateVars, chartVars>>
    \/ getAllCosts /\ UNCHANGED <<report, rateVars, chartVars>>
    \/ clearAllCosts /\ UNCHANGED <<report, rateVars, chartVars>>
    \/ \E y \in StoreYears, m \in StoreMonths :
          getReportRaw(y, m, JsStr("USD")) /\ UNCHANGED <<storeVars, report, rateVars, chartVars>>

\* the cost store: opening, adding, reading, clearing
StoreInit == Init /\ InitRates

Spec == StoreInit /\ [][StoreNext]_vars

RatesNext ==
    \/ fetchExchangeRates /\ UNCHANGED <<storeVars, lastResult, rawReport, report, chartVars>>
    \/ \E i \in 1..Len(fetches.pending), outcome \in Outcomes, data \in Bodies :
          fetchSettles(i, outcome, data) /\ UNCHANGED <<storeVars, lastResult, rawReport, report, chartVars>>
    \/ \E url \in Urls :
          setExchangeUrl(url) /\ UNCHANGED <<storeVars, lastResult, rawReport, report, chartVars>>
    \/ \E url \in Urls :
          saveSettings(url) /\ UNCHANGED <<storeVars, lastResult, rawReport, report, chartVars>>
    \/ \E rates \in RateInputs :
          setExchangeRates(rates) /\ UNCHANGED <<storeVars, lastResult, rawReport, report, chartVars>>
    \/ \E amount \in Amounts, fromCurrency \in CURRENCIES, toCurrency \in CURRENCIES :
          callConvertAmount(amount, fromCurrency, toCurrency)
             /\ UNCHANGED <<storeVars, lastResult, rawReport, report, chartVars>>

\* the exchange rate service: fetching, setting, converting
SpecRates == StoreInit /\ [][RatesNext]_vars

\* the cost objects that addCost's checks let through
AcceptedInputs ==
    {cost \in CostInputs \cup
                { CostObj(JsNum(Fin(100, 1)), JsStr("ILS"), JsText(Lunch), JsText(Food)) } :
        ValidationError(cost) = ""}

\* the ticks at which the records of an enumerated store were added
StoreTicks == 0..(Len(Dates) - 1)

\* the contents the store can have after n committed addCost calls: accepted
\* cost objects, stamped at ticks that do not decrease, with keys 1..n
StoresOfSize(n) ==
    { [j \in 1..n |-> [costItem(f[j][1], f[j][2], j) EXCEPT !.id = j]] :
        f \in { g \in [1..n -> AcceptedInputs \X StoreTicks] :
                  \A j \in 1..(n - 1) : g[j][2] <= g[j + 1][2] } }

ReportStores == UNION { StoresOfSize(n) : n \in 0..MaxCosts }

\* a store that is open and holds some committed records, no call in flight
InitReport ==
    /\ database = "open"
    /\ costsStore \in ReportStores
    /\ keyGen = Len(costsStore)
    /\ calls = <<>>
    /\ created = [j \in 1..Len(costsStore) |-> j]
    /\ clock = Len(Dates) - 1
    /\ handle = "wrapper"
    /\ lastResult = NoResult
    /\ rawReport = NoReport

\* the arguments of the reports of the report specification
ReportYears == {ArgNum(2024), ArgNum(2025), ArgStr}
ReportMonths == {ArgNum(3), ArgNum(4), ArgNum(0), ArgNum(13), ArgStr}
ReportCurrencies == {JsStr("USD"), JsStr("ILS"), JsStr("XYZ"), JsUndefined}

ReportNext ==
    \/ \E y \in ReportYears, m \in ReportMonths, c \in ReportCurrencies :
          getReportRaw(y, m, c) /\ UNCHANGED <<storeVars, report, rateVars, chartVars>>
    \/ \E outcome \in Outcomes, data \in Bodies \ {FlatBody} :
          getReportConverts(outcome, data) /\ UNCHANGED <<storeVars, lastResult, chartVars>>
    \/ getReportThrows /\ UNCHANGED <<storeVars, lastResult, chartVars>>

\* the report assembly over every store content
ReportInit == InitReport /\ InitRates

SpecReport == ReportInit /\ [][ReportNext]_vars

\* the arguments of the reports of the library specification
LibCurrencies == {JsStr("USD"), JsStr("XYZ"), JsUndefined}

LibNext ==
    \/ libOpenCostsDB /\ UNCHANGED <<rateVars, chartVars>>
    \/ libSetDatabase /\ UNCHANGED <<rateVars, chartVars>>
    \/ libTick /\ UNCHANGED <<rateVars, chartVars>>
    \/ \E cost \in LibInputs, t1, t2, t3 \in 0..(Len(Dates) - 1) :
          libAddCost(cost, t1, t2, t3) /\ UNCHANGED <<rateVars, chartVars>>
    \/ \E i \in 1..Len(calls) : libTxStep(i) /\ UNCHANGED <<rateVars, chartVars>>
    \/ libGetAllCosts /\ UNCHANGED <<rateVars, chartVars>>
    \/ libClearAllCosts /\ UNCHANGED <<rateVars, chartVars>>
    \/ \E y \in StoreYears, m \in StoreMonths \cup {ArgNum(13)}, c \in LibCurrencies :
          libGetReport(y, m, c) /\ UNCHANGED <<rateVars, chartVars>>
    \/ windowOpenCostsDB /\ UNCHANGED <<rateVars, chartVars>>
    \/ \E y \in StoreYears \cup {ArgNum(3)}, m \in StoreMonths, c \in LibCurrencies :
          dbWrapperGetReport(y, m, c) /\ UNCHANGED <<rateVars, chartVars>>

\* the wrapper library: opening, setting the database, adding, reading
SpecLib == StoreInit /\ [][LibNext]_vars

\* the cost objects of the stores of the chart specification: the second
\* one has a category that is an array index
ChartInputs ==
    { CostObj(JsNum(Fin(100, 1)), JsStr("ILS"), JsText(Food), JsText(Lunch)),
      CostObj(JsNum(Fin(50, 1)), JsStr("USD"), JsText(<<"7">>), JsText(Lunch)),
      CostObj(JsNum(Fin(1, 100)), JsStr("USD"), JsText(Food), JsText(Food)) }

ChartStoresOfSize(n) ==
    { [j \in 1..n |-> [costItem(f[j][1], f[j][2], j) EXCEPT !.id = j]] :
        f \in { g \in [1..n -> ChartInputs \X StoreTicks] :
                  \A j \in 1..(n - 1) : g[j][2] <= g[j + 1][2] } }

ChartStores == UNION { ChartStoresOfSize(n) : n \in 0..MaxCosts }

\* a store that is open and holds some committed records, no call in flight
ChartsInit ==
    /\ database = "open"
    /\ costsStore \in ChartStores
    /\ keyGen = Len(costsStore)
    /\ calls = <<>>
    /\ created = [j \in 1..Len(costsStore) |-> j]
    /\ clock = Len(Dates) - 1
    /\ handle = "wrapper"
    /\ lastResult = NoResult
    /\ rawReport = NoReport
    /\ InitRates

\* the months whose getAllRequest fails in a getCostsByMonth call
FailingMonths == {{}, {3}, 1..12}

\* the target currencies of the chart specification
ChartCurrencies == {JsStr("USD"), JsStr("ILS"), JsStr("XYZ")}

\* how the rate requests of the chart specification end: a network error, or
\* a body with all four rates
ChartResponses ==
    { <<"networkError", NoBody>>,
      <<"json", Body(TRUE, RemoteRates(Fin(1, 1), Fin(3, 4), Fin(9, 10), Fin(37, 10), Undefined))>> }

\* the year of the chart specification: the year of the stored records
ChartYears == {ArgNum(2024)}

ChartsNext ==
    \/ \E y \in ChartYears, m \in StoreMonths, c \in ChartCurrencies, dbOk \in BOOLEAN,
          r \in ChartResponses :
          getCostsByCategory(y, m, c, dbOk, r[1], r[2]) /\ UNCHANGED tabVars
    \/ \E y \in ChartYears \cup {ArgStr}, c \in ChartCurrencies, failing \in FailingMonths,
          r \in ChartResponses :
          getCostsByMonth(y, c, failing, r[1], r[2]) /\ UNCHANGED tabVars
    \/ \E y \in ChartYears, c \in ChartCurrencies, dbOk \in BOOLEAN :
          getMonthlyData(y, c, dbOk) /\ UNCHANGED tabVars

\* the chart aggregations over every store content
SpecCharts == ChartsInit /\ [][ChartsNext]_vars

\* the values of the fields of the cost objects of the validation
\* specification: a valid one, an invalid one of the right type, and one of
\* the wrong type
FieldSums == {JsNum(Fin(1, 100)), JsNum(Fin(-5, 1)), JsStr("12")}
FieldCurrencies == {JsStr("USD"), JsStr("XYZ"), JsNum(Fin(5, 1))}
FieldTexts == {JsText(Food), JsText(Blank), JsNum(Fin(5, 1))}

ValidationInputs ==
    { CostObj(s, cu, ca, de) :
        s \in FieldSums, cu \in FieldCurrencies, ca \in FieldTexts, de \in FieldTexts }

ValidationNext ==
    \/ openCostsDB /\ UNCHANGED <<report, rateVars, chartVars>>
    \/ \E cost \in ValidationInputs : addCost(cost) /\ UNCHANGED <<report, rateVars, chartVars>>

\* addCost over every combination of valid and invalid fields
SpecValidation == StoreInit /\ [][ValidationNext]_vars

TabNext ==
    \/ openCostsDB /\ UNCHANGED <<report, rateVars, chart, tabVars>>
    \/ generatePieChart /\ UNCHANGED <<report, rateVars, chart>>
    \/ generateBarChart /\ UNCHANGED <<report, rateVars, chart>>
    \/ \E i \in 1..Len(generations), outcome \in PieOutcomes :
          pieChartSettles(i, outcome) /\ UNCHANGED <<report, rateVars, chart>>
    \/ \E i \in 1..Len(generations) :
          barChartSettles(i) /\ UNCHANGED <<report, rateVars, chart>>

\* the charts tab: clicks on its two buttons and the ends of the generations
SpecTab == StoreInit /\ [][TabNext]_vars

IdbNext ==
    \/ idbOpenCostsDB /\ UNCHANGED <<rateVars, chartVars>>
    \/ idbSetDatabase /\ UNCHANGED <<rateVars, chartVars>>
    \/ \E cost \in IdbInputs : idbAddCost(cost) /\ UNCHANGED <<rateVars, chartVars>>
    \/ \E i \in 1..Len(calls) : idbRequestOnsuccess(i) /\ UNCHANGED <<rateVars, chartVars>>
    \/ \E i \in 1..Len(calls) : idbRequestOnerror(i) /\ UNCHANGED <<rateVars, chartVars>>
    \/ \E i \in 1..Len(calls) : idbGetRequestOnsuccess(i) /\ UNCHANGED <<rateVars, chartVars>>
    \/ \E i \in 1..Len(calls) : idbGetRequestFails(i) /\ UNCHANGED <<rateVars, chartVars>>
    \/ \E i \in 1..Len(calls) : idbTxComplete(i) /\ UNCHANGED <<rateVars, chartVars>>
    \/ \E i \in 1..Len(calls) : idbTxAbort(i) /\ UNCHANGED <<rateVars, chartVars>>

\* the browser delivers the events of every transaction: a transaction that
\* has a request outstanding, or is ready to commit, eventually takes a step
IdbFairness ==
    \A i \in 1..MaxCalls : WF_vars(idbTxStep(i) /\ UNCHANGED <<rateVars, chartVars>>)

\* the service's addCost with every outcome of its requests and of its
\* transaction
SpecIdb == StoreInit /\ [][IdbNext]_vars /\ IdbFairness

(***************************************************************************)
(* Claims about the cost store, checked under Spec.                        *)
(***************************************************************************)
NonBlank(cs) == \E j \in 1..Len(cs) : ~IsSpace(cs[j])

\* the cost objects the data model allows: a positive finite sum, a supported
\* currency, a category and a description with a visible character
SpecValid(cost) ==
    /\ cost.obj
    /\ cost.sum.t = "number" /\ cost.sum.num.k = "fin" /\ cost.sum.num.n > 0
    /\ cost.currency.t = "string" /\ cost.currency.str \in {"USD", "ILS", "GBP", "EURO"}
    /\ cost.category.t = "string" /\ NonBlank(cost.category.chars)
    /\ cost.description.t = "string" /\ NonBlank(cost.description.chars)

\* the record r carries the fields of the cost object
Carries(r, cost) ==
    /\ r.sum = cost.sum.num
    /\ r.currency = cost.currency.str
    /\ r.category = cost.category.chars
    /\ r.description = cost.description.chars

RecordsOfCall(store, i) == {j \in 1..Len(store) : store[j].by = i}

\* C1: addCost rejects, and persists nothing, for every cost object whose sum
\* is not a positive finite number, whose currency is unsupported or whose
\* category or description is empty or blank; and a valid cost object (sum
\* 0.01 included) is not rejected by the checks.
C1_RejectsInvalid ==
    /\ \A i \in 1..Len(calls) : SpecValid(calls[i].cost)
    /\ \A j \in 1..Len(costsStore) :
          costsStore[j].sum.k = "fin" /\ costsStore[j].sum.n > 0
    /\ (lastResult.op = "addCost" /\ ~lastResult.ok /\ SpecValid(lastResult.cost))
          => lastResult.error = "Database not ready"

\* C2: once the transaction of an addCost call has ended, a resolved promise
\* means exactly one record of that call, carrying the input's fields, is in
\* the store and in every getAllCosts result until a clearAllCosts, and a
\* rejected promise means no record of that call is in the store.
C2_AllOrNothing ==
    \A i \in 1..Len(calls) :
        (calls[i].tx # "active" /\ ~calls[i].cleared) =>
            /\ calls[i].promise = "resolved" =>
                  /\ Cardinality(RecordsOfCall(costsStore, i)) = 1
                  /\ \A j \in RecordsOfCall(costsStore, i) :
                        Carries(costsStore[j], calls[i].cost)
                  /\ (lastResult.op = "getAllCosts" /\ lastResult.ok) =>
                        Cardinality(RecordsOfCall(lastResult.costs, i)) = 1
            /\ calls[i].promise = "rejected" => RecordsOfCall(costsStore, i) = {}

\* C3: the period query returns exactly the stored records whose year and
\* month equal the arguments, each once and in store order; a period without
\* records yields the empty list.
C3_PeriodQueryExact ==
    rawReport.ok =>
        /\ \A j \in 1..Len(costsStore) :
              (costsStore[j].year = rawReport.year /\ costsStore[j].month = rawReport.month)
                 <=> (\E k \in 1..Len(rawReport.costs) : rawReport.costs[k] = costsStore[j])
        /\ \A k \in 1..Len(rawReport.costs) :
              /\ rawReport.costs[k].year = rawReport.year
              /\ rawReport.costs[k].month = rawReport.month
              /\ \E j \in 1..Len(costsStore) : costsStore[j] = rawReport.costs[k]
        /\ \A k, l \in 1..Len(rawReport.costs) :
              k < l => rawReport.costs[k].id < rawReport.costs[l].id

\* a query that returned some records of the store and left out others
C3_Witness ==
    /\ rawReport.ok
    /\ Len(rawReport.costs) >= 1
    /\ Len(costsStore) > Len(rawReport.costs)

\* C9: the ids of the records ever committed are strictly increasing in
\* commit order, so no two records ever share an id, across overlapping
\* addCost calls and across clearAllCosts; the stored records carry them.
C9_IdsIncrease ==
    /\ \A i, j \in 1..Len(created) : i < j => created[i] < created[j]
    /\ \A i, j \in 1..Len(costsStore) : i < j => costsStore[i].id < costsStore[j].id
    /\ \A j \in 1..Len(costsStore) :
          \E i \in 1..Len(created) : created[i] = costsStore[j].id

\* a record committed after a clearAllCosts removed an earlier one
C9_Witness ==
    /\ Len(created) >= 2
    /\ \E i \in 1..Len(calls) : calls[i].cleared
    /\ costsStore # <<>>

\* C10: after addCost(x) resolved, the period query for the year and month of
\* the addition returns a record with x's sum, currency, category and
\* description and the day of the addition.
C10_RoundTrip ==
    rawReport.ok =>
        \A i \in 1..Len(calls) :
            ( /\ calls[i].promise = "resolved"
              /\ ~calls[i].cleared
              /\ currentDate(calls[i].item.date).year = rawReport.year
              /\ currentDate(calls[i].item.date).month = rawReport.month )
            => \E k \in 1..Len(rawReport.costs) :
                  /\ Carries(rawReport.costs[k], calls[i].cost)
                  /\ rawReport.costs[k].day = currentDate(calls[i].item.date).day

(***************************************************************************)
(* Claims about the report assembly, checked under SpecReport.             *)
(***************************************************************************)
RECURSIVE SumOfSums(_)
SumOfSums(items) ==
    IF items = <<>> THEN Zero ELSE NumAdd(Head(items).sum, SumOfSums(Tail(items)))

\* C4: in every report, total.total is the sum of the sums of the line items
\* of that report, and total.currency is the requested currency.
C4_TotalIsSum ==
    report.ok =>
        /\ report.total.total = SumOfSums(report.costs)
        /\ report.total.currency = report.requested

\* a report of two line items, one of them converted, with a finite total
C4_Witness ==
    /\ report.ok
    /\ Len(report.costs) = 2
    /\ \E k \in 1..2 : report.source[k].currency # report.requested
    /\ report.total.total.k = "fin"
    /\ report.total.total.n > 0

\* the records of the store in the period, in store order
RECURSIVE Matching(_, _, _)
Matching(store, year, month) ==
    IF store = <<>> THEN <<>>
    ELSE IF Head(store).year = year /\ Head(store).month = month
         THEN <<Head(store)>> \o Matching(Tail(store), year, month)
         ELSE Matching(Tail(store), year, month)

\* the sum of a record in the target currency: itself, or through USD
Converted(amount, from, to, rates) ==
    IF from = to THEN amount ELSE NumMul(NumDiv(amount, rates[from]), rates[to])

\* C5: the line items of a report are the matching stored records, one each
\* and in store order, with the target currency, the record's sum converted
\* to it, and the record's category, description and day.
C5_LineItems ==
    report.ok =>
        LET recs == Matching(costsStore, report.year, report.month) IN
        /\ Len(report.costs) = Len(recs)
        /\ \A k \in 1..Len(report.costs) :
              k <= Len(recs) =>
                 /\ report.costs[k].currency = report.requested
                 /\ report.costs[k].sum =
                       Converted(recs[k].sum, recs[k].currency, report.requested, exchangeRates)
                 /\ report.costs[k].category = recs[k].category
                 /\ report.costs[k].description = recs[k].description
                 /\ report.costs[k].Date.day = recs[k].day

(***************************************************************************)
(* Claims about the exchange rate service, checked under SpecRates.        *)
(***************************************************************************)
\* C6: convertAmount returns the amount itself when the two currencies are
\* the same, and otherwise amount / rates[from] * rates[to] with the table
\* current at the call: result * rates[from] = amount * rates[to].
C6_ConvertFormula ==
    conv.set =>
        LET rf == exchangeRates[conv.from]
            rt == exchangeRates[conv.to]
        IN  IF conv.from = conv.to THEN conv.result = conv.amount
            ELSE IF conv.amount.k = "fin" /\ rf.k = "fin" /\ rt.k = "fin" /\ rf.n # 0
            THEN /\ conv.result.k = "fin"
                 /\ conv.result.n * rf.n * conv.amount.d * rt.d
                       = conv.amount.n * rt.n * conv.result.d * rf.d
            ELSE conv.result = NumMul(NumDiv(conv.amount, rf), rt)

\* a conversion between two currencies other than USD with a fetched table
C6_Witness ==
    /\ conv.set
    /\ conv.from = "ILS" /\ conv.to = "EURO"
    /\ conv.amount = Fin(100, 1)
    /\ exchangeRates # DefaultRates
    /\ conv.result.k = "fin" /\ conv.result # conv.amount

\* the four rates the code reads from a response
ExpectedFields == {"USD", "GBP", "EUR", "ILS"}

Present(v) == v.k = "fin" /\ v.n # 0

BuiltIn(c) ==
    CASE c = "USD" -> Fin(1, 1) [] c = "GBP" -> Fin(4, 5)
      [] c = "EURO" -> Fin(17, 20) [] c = "ILS" -> Fin(7, 2)

RemoteName(c) == IF c = "EURO" THEN "EUR" ELSE c

C11_OneInstant ==
    /\ \A j \in 1..Len(costsStore) :
          /\ costsStore[j].year = currentDate(costsStore[j].date).year
          /\ costsStore[j].month = currentDate(costsStore[j].date).month
          /\ costsStore[j].day = currentDate(costsStore[j].date).day
          /\ costsStore[j].month \in 1..12
          /\ costsStore[j].day \in 1..31
    /\ \A i \in 1..Len(calls) :
          /\ calls[i].item.year = currentDate(calls[i].item.date).year
          /\ calls[i].item.month = currentDate(calls[i].item.date).month
          /\ calls[i].item.day = currentDate(calls[i].item.date).day

NotReadyErrors == {"Database not ready", "Database not initialized"}

\* C12: a call is rejected as not ready only while no openCostsDB call has
\* succeeded, and while none has, no call is accepted: nothing is resolved,
\* no transaction is opened and no report is produced.
C12_NotReadyUntilOpen ==
    /\ (~lastResult.ok /\ lastResult.error \in NotReadyErrors) => handle = "none"
    /\ (rawReport.error \in NotReadyErrors \/ report.error \in NotReadyErrors)
          => handle = "none"
    /\ handle = "none" =>
          /\ calls = <<>>
          /\ ~rawReport.ok /\ ~report.ok
          /\ lastResult.op \in {"addCost", "getAllCosts", "clearAllCosts"} => ~lastResult.ok

\* C13: a report is never produced for a target currency other than USD,
\* ILS, GBP, EURO.
C13_UnsupportedCurrencyRejected ==
    /\ report.ok => report.requested \in {"USD", "ILS", "GBP", "EURO"}
    /\ rawReport.ok => rawReport.requestedCurrency \in {"USD", "ILS", "GBP", "EURO"}

(***************************************************************************)
(* Further claims about the exchange rate service, checked under           *)
(* SpecRates.                                                              *)
(***************************************************************************)
\* C14: a conversion between two different currencies, one of which has no
\* rate in the table, returns the amount it was given.
C14_MissingRateKeepsAmount ==
    ( /\ conv.set
      /\ conv.from # conv.to
      /\ \/ exchangeRates[conv.from] = Undefined
         \/ exchangeRates[conv.to] = Undefined )
    => conv.result = conv.amount

\* C15: no request is made for an empty URL: none is in flight and none has
\* ended, and the calls made with an empty URL leave the table as it was and
\* return it.
C15_EmptyUrlNoRequest ==
    /\ \A i \in 1..Len(fetches.pending) : fetches.pending[i].url # ""
    /\ fetches.last.outcome # "none" => fetches.last.url # ""

\* the table of the documented response
DocumentedRates == Table(Fin(1, 1), Fin(9, 5), Fin(7, 10), Fin(17, 5))

\* C16: after the documented flat response was received, the table holds its
\* four rates.
C16_FlatResponseInstalled ==
    (fetches.last.outcome = "json" /\ fetches.last.data = FlatBody)
        => /\ exchangeRates = DocumentedRates
           /\ fetches.last.returned = DocumentedRates

\* C17: the USD rate of the table is 1 in every reachable state.
C17_UsdIsOne == exchangeRates["USD"] = Fin(1, 1)

\* C18: while the configured URL is empty, the table is the built-in one.
C18_EmptyUrlMeansDefaults == exchangeUrl = "" => exchangeRates = DefaultRates

(***************************************************************************)
(* Claims about the chart aggregations, checked under SpecCharts.          *)
(***************************************************************************)
\* the categories of the line items, each once, in the order of their first
\* appearance
RECURSIVE FirstAppearance(_, _)
FirstAppearance(items, seen) ==
    IF items = <<>> THEN seen
    ELSE FirstAppearance(Tail(items),
            IF \E j \in 1..Len(seen) : seen[j] = Head(items).category
            THEN seen ELSE Append(seen, Head(items).category))

\* C19: the labels of the category aggregation are the distinct categories of
\* the report's line items in the order of their first appearance, and each
\* value is the sum of the sums of the line items of that category.
C19_CategoriesInFirstAppearance ==
    (chart.op = "byCategory" /\ chart.ok) =>
        /\ chart.labels = FirstAppearance(chart.source, <<>>)
        /\ Len(chart.data) = Len(chart.labels)
        /\ \A k \in 1..Len(chart.labels) :
              chart.data[k] =
                 SumOfSums(SelectSeq(chart.source,
                                     LAMBDA item : item.category = chart.labels[k]))

\* C20: the year aggregation returns for a supported currency, with the 12
\* month names January..December and 12 values in month order, whatever the
\* store holds; the value of a month without a record of that year is 0.
C20_TwelveMonths ==
    chart.op = "byMonth" =>
        /\ chart.ok <=> chart.currency \in CURRENCIES
        /\ chart.ok =>
              /\ chart.labels = MonthLabels
              /\ Len(chart.data) = 12
              /\ Len(chart.source) = 12
              /\ \A m \in 1..12 :
                    /\ chart.source[m].month = m
                    /\ chart.data[m] = chart.source[m].total
                    /\ (\A j \in 1..Len(costsStore) :
                           ~(costsStore[j].year = chart.year /\ costsStore[j].month = m))
                          => chart.data[m] = Zero

\* a year aggregation over a store with records in March and in April of the
\* year, with a value for each and 0 for the other months
C20_Witness ==
    /\ chart.op = "byMonth" /\ chart.ok
    /\ \E j \in 1..Len(costsStore) : costsStore[j].year = chart.year /\ costsStore[j].month = 3
    /\ \E j \in 1..Len(costsStore) : costsStore[j].year = chart.year /\ costsStore[j].month = 4
    /\ chart.data[3] # Zero /\ chart.data[4] # Zero
    /\ \A m \in (1..12) \ {3, 4} : chart.data[m] = Zero

\* C21: for every month m in 1..12, entry m of the year aggregation for
\* (year, currency) equals the total of the report of (year, m, currency):
\* the sum of the month's records, each converted from its stored currency
\* to the requested one.
C21_MonthEntryIsReportTotal ==
    (chart.op = "monthlyData" /\ chart.source # <<>>) =>
        \A m \in 1..12 :
            chart.data[m] =
                libReportOf(costsStore, chart.year, m, chart.currency, windowApp).total.total

\* C22: after clearAllCosts resolved, getAllCosts returns the empty sequence;
\* and clearAllCosts on an already empty store leaves the store empty and is
\* not refused for the store being empty.
C22_ClearEmpties ==
    [][ /\ (lastResult.op = "clearAllCosts" /\ lastResult.ok
              /\ lastResult'.op = "getAllCosts" /\ lastResult'.ok)
           => lastResult'.costs = <<>>
        /\ (costsStore = <<>> /\ lastResult'.op = "clearAllCosts")
           => /\ costsStore' = <<>>
              /\ lastResult'.error \in {"", "Database not ready", "Could not clear costs"}
      ]_vars

\* the second half of C22 alone: clearAllCosts on an empty store
C22_ClearOfEmptyStaysEmpty ==
    [][ (costsStore = <<>> /\ lastResult'.op = "clearAllCosts") => costsStore' = <<>> ]_vars

(***************************************************************************)
(* Further claims about the wrapper library, checked under SpecLib.        *)
(***************************************************************************)
\* C23: the getReport method of the handle openCostsDB resolves with, called
\* as getReport(year, month, currency), returns what the library function
\* getReport(year, month, currency) returns: the same rejection, or the same
\* report of the stored records.
C23_WrapperAsLibrary ==
    lastResult.op = "dbWrapper.getReport" =>
        LET year == lastResult.args[1]
            month == lastResult.args[2]
            currency == lastResult.args[3]
            err == libReportError(year, month, currency)
        IN  IF err # "" THEN report.error = err
            ELSE \/ report = libReportOf(costsStore, year.v, month.v, currency.str, windowApp)
                 \/ report.error = "Failed to retrieve costs"

(***************************************************************************)
(* Claims about addCost's checks, checked under SpecValidation.            *)
(***************************************************************************)
\* the first check a cost object violates, in the order: sum is a number
\* > 0, currency is a string, currency is a supported code, category is
\* non-empty after trim, description is non-empty after trim
FirstViolated(cost) ==
    IF ~(cost.sum.t = "number" /\ ~IsNaNish(cost.sum.num) /\ ~LeqZero(cost.sum.num))
    THEN "sum"
    ELSE IF cost.currency.t # "string" THEN "currency is a string"
    ELSE IF cost.currency.str \notin CURRENCIES THEN "currency is supported"
    ELSE IF ~(cost.category.t = "string" /\ NonBlank(cost.category.chars)) THEN "category"
    ELSE IF ~(cost.description.t = "string" /\ NonBlank(cost.description.chars))
    THEN "description"
    ELSE "none"

\* the messages with which addCost reports a violation of each check
ErrorsOfCheck(check) ==
    CASE check = "sum" -> {"Sum must be a number", "Sum must be a positive number"}
      [] check = "currency is a string" -> {"Currency must be a string"}
      [] check = "currency is supported" -> {"Currency must be one of: USD, ILS, GBP, EURO"}
      [] check = "category" -> {"Category must be a string", "Category cannot be empty"}
      [] check = "description" ->
            {"Description must be a string", "Description cannot be empty"}
      [] OTHER -> {}

\* C24: when an addCost input violates several constraints at once, the
\* error reported is the one of the first violated check in the order: sum
\* is a number > 0, currency is a string, currency is a supported code,
\* category is non-empty after trim, description is non-empty after trim.
C24_FirstViolationReported ==
    (lastResult.op = "addCost" /\ ~lastResult.ok /\ FirstViolated(lastResult.cost) # "none")
        => lastResult.error \in ErrorsOfCheck(FirstViolated(lastResult.cost))

\* the part of C24 the code keeps: an input that violates a check is rejected
\* with the message of one of the checks it violates
C24_SomeViolationReported ==
    (lastResult.op = "addCost" /\ FirstViolated(lastResult.cost) # "none")
        => /\ ~lastResult.ok
           /\ \E check \in {"sum", "currency is a string", "currency is supported",
                            "category", "description"} :
                 /\ lastResult.error \in ErrorsOfCheck(check)
                 /\ FirstViolated([lastResult.cost EXCEPT
                        !.sum = IF check = "sum" THEN @ ELSE JsNum(Fin(1, 1)),
                        !.currency = IF check \in {"currency is a string",
                                                   "currency is supported"}
                                     THEN @ ELSE JsStr("USD"),
                        !.category = IF check = "category" THEN @ ELSE JsText(Food),
                        !.description = IF check = "description" THEN @
                                        ELSE JsText(Food)]) # "none"

(***************************************************************************)
(* Further claims about the cost store, checked under Spec.                *)
(***************************************************************************)
\* a step in which the transaction of addCost call i ends
Finishes(i) == calls[i].pc # "done" /\ calls'[i].pc = "done"

\* a step changes the records only by appending the record of a call or by
\* clearAllCosts emptying the store; calls refused by the checks, rejected
\* calls, getReport and getAllCosts leave the records as they are
RecordsFrame ==
    /\ costsStore' # costsStore =>
          \/ lastResult'.op = "clearAllCosts" /\ lastResult'.ok /\ costsStore' = <<>>
          \/ \E i \in 1..Len(calls) :
                Finishes(i) /\ costsStore' = Append(costsStore, calls[i].item)
    /\ \A i \in 1..Len(calls) :
          (Finishes(i) /\ calls'[i].promise = "rejected") => costsStore' = costsStore
    /\ (lastResult'.op \in {"addCost", "getAllCosts"} \/ rawReport' # NoReport)
          => costsStore' = costsStore

\* C25: stored records are immutable: a successful addCost adds exactly one
\* record and changes no existing one; a rejected addCost, getReport and
\* getAllCosts leave the record set unchanged; clearAllCosts is the only
\* operation that removes records.
C25_RecordsImmutable ==
    [][ /\ RecordsFrame
        /\ \A i \in 1..Len(calls) :
              (Finishes(i) /\ calls'[i].promise = "resolved")
                 => costsStore' = Append(costsStore, calls[i].item)
      ]_vars

\* the part of C25 that does not depend on the commit: no step changes or
\* removes a stored record except clearAllCosts
C25_RecordsNeverChange == [][RecordsFrame]_vars

(***************************************************************************)
(* Further claims about the chart aggregations, checked under SpecCharts.  *)
(***************************************************************************)
\* C26: a validation or storage error raised while building the report of
\* any month during the year aggregation propagates to the caller of the
\* aggregation; it is not turned into a 0 entry for that month.
C26_MonthErrorPropagates ==
    (chart.op \in {"byMonth", "monthlyData"} /\ chart.failed # {}) => ~chart.ok

(***************************************************************************)
(* Claims about the service's addCost, checked under SpecIdb.              *)
(***************************************************************************)
\* C27: every addCost call eventually settles: its promise is resolved or
\* rejected whatever the outcome of the add request, of the read of the
\* added record and of the transaction; no outcome leaves the caller waiting
\* forever.
C27_EveryCallSettles ==
    \A i \in 1..MaxCalls :
        (Len(calls) >= i) ~> (Len(calls) >= i /\ calls[i].promise # "pending")

\* the outcomes C27 holds for: a call whose transaction ended otherwise than
\* by a failed read of the added record has settled
C27_SettledUnlessReadFailed ==
    \A i \in 1..Len(calls) :
        (calls[i].pc = "done" /\ calls[i].promise = "pending")
            => calls[i].tx = "aborted" /\ calls[i].key # 0

(***************************************************************************)
(* Claims about the rate tables of the store and of the exchange rate      *)
(* service, checked under SpecRates.                                       *)
(***************************************************************************)
\* the table the store's convertCurrency reads: window.app.exchangeRates,
\* otherwise its built-in defaults
StoreRates == IF windowApp.set THEN windowApp.rates ELSE defaultRates

\* C28: there is one rate table: in every reachable state, including before
\* the first successful fetch, the table the store's convertCurrency reads
\* holds the same rates as the exchange rate service's current table, so a
\* conversion by the store and one by the service of the same amount agree.
C28_OneRateTable ==
    /\ StoreRates = exchangeRates
    /\ \A fromCurrency \in CURRENCIES, toCurrency \in CURRENCIES :
          (Present(exchangeRates[fromCurrency]) /\ Present(exchangeRates[toCurrency]))
             => convertCurrency(Fin(100, 1), fromCurrency, toCurrency, windowApp)
                   = convertAmount(Fin(100, 1), fromCurrency, toCurrency, exchangeRates)

\* what the code keeps of C28: right after a rate request was applied, both
\* tables are the fetched one
C28_SameAfterAppliedFetch ==
    (fetches.last # NoFetch /\ Applies(fetches.last.outcome, fetches.last.data))
        => StoreRates = exchangeRates

(***************************************************************************)
(* Claims about the charts tab, checked under SpecTab.                     *)
(***************************************************************************)
\* a generation of the chart is in flight
InFlight(kind) == \E i \in 1..Len(generations) : generations[i].kind = kind

\* C29: a chart's loading flag is true only while a generation of that chart
\* is in flight: for every interleaving of generatePieChart and
\* generateBarChart calls, once all of them have finished both flags are
\* false, and a flag is never cleared while its own generation is running.
C29_LoadingWhileInFlight ==
    /\ loading.pie <=> InFlight("pie")
    /\ loading.bar <=> InFlight("bar")

(***************************************************************************)
(* Claims about overlapping rate requests, checked under SpecRates.        *)
(***************************************************************************)
\* a step in which a fetchExchangeRates call settles
Settles == Len(fetches'.pending) < Len(fetches.pending)

\* C30: when fetchExchangeRates calls overlap, or the rate URL is changed
\* while a fetch is in flight, the table is the one produced by the most
\* recently started fetch against the configured URL: a response of an
\* earlier call, arriving after a later call's response was applied, does
\* not overwrite it, and neither does a response from a URL that is no
\* longer the configured one.
C30_LatestFetchWins ==
    [][ Settles =>
          /\ (/\ fetches.last # NoFetch
              /\ Applies(fetches.last.outcome, fetches.last.data)
              /\ fetches'.last.id < fetches.last.id)
                => exchangeRates' = exchangeRates
          /\ (fetches'.last.url # exchangeUrl) => exchangeRates' = exchangeRates
      ]_vars

\* the first half of C30 alone: an earlier call's response does not
\* overwrite the applied response of a later call
C30_EarlierDoesNotOverwrite ==
    [][ (/\ Settles
         /\ fetches.last # NoFetch
         /\ Applies(fetches.last.outcome, fetches.last.data)
         /\ fetches'.last.id < fetches.last.id)
            => exchangeRates' = exchangeRates ]_vars

\* the second half of C30 alone: a response from a URL that is no longer
\* the configured one does not change the table
C30_StaleUrlDoesNotApply ==
    [][ (Settles /\ fetches'.last.url # exchangeUrl) => exchangeRates' = exchangeRates ]_vars

=============================================================================
